---- MODULE Spec2Model ----
(***************************************************************************)
(* Bio/PDB/Interface.py: the Interface entity (residues listed by chain,   *)
(* a raw contact-pair list, the neighbors map derived from it) and its     *)
(* analyses: set_neighbors, fcc, rmsd, calculate_BSA, calculate_percentage.*)
(* The module is Python 2 (print statements, dict.itervalues): "/" on two  *)
(* ints is floor division.                                                 *)
(***************************************************************************)
EXTENDS Integers, Sequences, FiniteSets, TLC

VARIABLES child_list, child_dict, uniq_pairs, neighbors, neighbors_id, runs, result

vars == <<child_list, child_dict, uniq_pairs, neighbors, neighbors_id, runs, result>>

(* ------------------------------ bounds -------------------------------- *)

\* longest raw contact-pair list drawn for an interface
MaxPairs == 2
\* longest residue list drawn for an interface in the residue analyses
MaxRes == 3
\* cap on the number of set_neighbors runs counted per instance
MaxRuns == 2

(* ----------------------- residues of the structure -------------------- *)

\* A residue as the code reads it: parent.id (chain), id = (hetero flag,
\* sequence number, insertion code), resname, and whether it owns a 'CA' atom.
Res(c, n, name, ca) == [chain |-> c, id |-> <<" ", n, " ">>, resname |-> name, ca |-> ca]

A10 == Res("A", 10, "ALA", TRUE)
A11 == Res("A", 11, "LYS", TRUE)
B10 == Res("B", 10, "SER", TRUE)
C10 == Res("C", 10, "HOH", FALSE)

Residues == {A10, A11, B10, C10}

\* the two Interface instances the analyses are run on
Interfaces == {"I1", "I2"}

(* ----------------------------- dictionaries --------------------------- *)

EmptyDict == [k \in {} |-> {}]

Put(d, k, v) == [x \in (DOMAIN d) \cup {k} |-> IF x = k THEN v ELSE d[x]]

InSeq(x, s) == \E n \in DOMAIN s : s[n] = x

Range(s) == {s[n] : n \in DOMAIN s}

(* ------------------------- Interface.__init__ / add ------------------- *)

\* Entity.has_id tests the id against the keys of child_dict. Interface.add
\* keys child_dict by chain id; a residue id triple is never one of them.
has_id(cd, entity_id) == FALSE

\* Interface.add on the pair (child_list, child_dict)
add(self, entity) ==
    IF ~has_id(self.child_dict, entity.id)
    THEN [child_list |-> Append(self.child_list, entity),
          child_dict |->
              LET cd == IF entity.chain \notin DOMAIN self.child_dict
                        THEN Put(self.child_dict, entity.chain, <<>>)
                        ELSE self.child_dict
              IN  Put(cd, entity.chain, Append(cd[entity.chain], entity))]
    ELSE self

\* Entity.__init__: no children yet
NewEntity == [child_list |-> <<>>, child_dict |-> EmptyDict]

RECURSIVE AddAll(_, _)
AddAll(self, rs) ==
    IF rs = <<>> THEN self ELSE AddAll(add(self, Head(rs)), Tail(rs))

\* Interface.get_chains: the keys of child_dict
get_chains(i) == DOMAIN child_dict[i]

(* ------------------------------ set_neighbors ------------------------- *)

\* second half of the loop body, lines 75-79: the entry of resB
SecondResidue(nb, resA, resB) ==
    LET cB == resB.chain
    IN  IF resB \notin DOMAIN nb[cB]
        THEN Put(nb, cB, Put(nb[cB], resB, <<resB>>))
        ELSE IF ~InSeq(resA, nb[cB][resB])
             THEN Put(nb, cB, Put(nb[cB], resB, Append(nb[cB][resB], resA)))
             ELSE nb

\* first half of the loop body, lines 69-73: the entry of resA
FirstResidue(nb, resA, resB) ==
    LET cA == resA.chain
    IN  IF resA \notin DOMAIN nb[cA]
        THEN Put(nb, cA, Put(nb[cA], resA, <<resB>>))
        ELSE IF ~InSeq(resB, nb[cA][resA])
             THEN Put(nb, cA, Put(nb[cA], resA, Append(nb[cA][resA], resB)))
             ELSE nb

RECURSIVE PairLoop(_, _)
PairLoop(nb, pairs) ==
    IF pairs = <<>> THEN nb
    ELSE LET resA == Head(pairs)[1]
             resB == Head(pairs)[2]
         IN  PairLoop(SecondResidue(FirstResidue(nb, resA, resB), resA, resB),
                      Tail(pairs))

\* the neighbors dictionary set_neighbors leaves behind: every chain key is
\* reset to {} (lines 63-64), then the pair loop fills them (lines 66-79)
SetNeighborsMap(old, chains, pairs) ==
    PairLoop([c \in (DOMAIN old) \cup chains |-> IF c \in chains THEN EmptyDict ELSE old[c]],
             pairs)

(* ---------------------------- _get_neighbors_id ------------------------ *)

\* list.sort() on a list of sequence numbers
sort(s) == SortSeq(s, LAMBDA a, b : a < b)

\* key.id -> sorted list of the partners' sequence numbers (res.id[1])
NeighborsId(nbc) ==
    [rid \in {r.id : r \in DOMAIN nbc} |->
        LET key == CHOOSE r \in DOMAIN nbc : r.id = rid
        IN  sort([n \in DOMAIN nbc[key] |-> nbc[key][n].id[2]])]

(* ----------------------------------- fcc ------------------------------- *)

\* "if not x.neighbors: x.set_neighbors()" (lines 204-207) on the pair
\* (neighbors, runs) of all instances
Ensure(st, x) ==
    IF DOMAIN st.nb[x] = {}
    THEN [nb   |-> [st.nb EXCEPT ![x] = SetNeighborsMap(st.nb[x], get_chains(x), uniq_pairs[x])],
          runs |-> [st.runs EXCEPT ![x] = @ + 1]]
    ELSE st

\* total (line 217): the sum of the partner-list lengths
RECURSIVE SumLen(_, _)
SumLen(d, keys) ==
    IF keys = {} THEN 0
    ELSE LET k == CHOOSE x \in keys : TRUE
         IN  Len(d[k]) + SumLen(d, keys \ {k})

\* common (lines 220-223): shared partner numbers over the shared keys
RECURSIVE Common(_, _, _)
Common(sid, mid, keys) ==
    IF keys = {} THEN 0
    ELSE LET k == CHOOSE x \in keys : TRUE
         IN  (IF k \in DOMAIN mid
              THEN Cardinality(Range(sid[k]) \cap Range(mid[k]))
              ELSE 0) + Common(sid, mid, keys \ {k})

\* float(common/total), line 224, on Python 2 ints: the quotient is floored
\* before the conversion. A float is written <<numerator, denominator>>.
Ratio(common, total) == <<common \div total, 1>>

NoValue == <<0, 1>>

FccResult(self, mobile, outcome, chain, total, common, value) ==
    [op |-> "fcc", self |-> self, mobile |-> mobile, outcome |-> outcome,
     chain |-> chain, total |-> total, common |-> common, value |-> value]

fcc(self, mobile) ==
    LET st0 == [nb |-> neighbors, runs |-> runs]
        st1 == Ensure(st0, self)
        st2 == Ensure(st1, mobile)
    IN  /\ \A x \in Interfaces : st2.runs[x] <= MaxRuns
        /\ neighbors' = st2.nb
        /\ runs' = st2.runs
        /\ UNCHANGED <<child_list, child_dict, uniq_pairs>>
        /\ IF get_chains(self) = {}
           THEN \* the loop of line 210 binds nothing: "chain" is unbound at line 213
                /\ neighbors_id' = neighbors_id
                /\ result' = FccResult(self, mobile, "UnboundLocalError", "", 0, 0, NoValue)
           ELSE \E chain \in get_chains(self) :
                IF chain \notin DOMAIN st2.nb[self]
                THEN /\ neighbors_id' = [neighbors_id EXCEPT ![self] = EmptyDict]
                     /\ result' = FccResult(self, mobile, "KeyError", chain, 0, 0, NoValue)
                ELSE IF chain \notin DOMAIN st2.nb[mobile]
                THEN /\ neighbors_id' = [neighbors_id EXCEPT
                                            ![self] = NeighborsId(st2.nb[self][chain]),
                                            ![mobile] = EmptyDict]
                     /\ result' = FccResult(self, mobile, "KeyError", chain, 0, 0, NoValue)
                ELSE LET sid == NeighborsId(st2.nb[self][chain])
                         mid == NeighborsId(st2.nb[mobile][chain])
                         total == SumLen(sid, DOMAIN sid)
                         common == Common(sid, mid, DOMAIN sid)
                     IN  /\ neighbors_id' = [neighbors_id EXCEPT ![self] = sid, ![mobile] = mid]
                         /\ result' =
                              IF total = 0
                              THEN FccResult(self, mobile, "ZeroDivisionError", chain,
                                             total, common, NoValue)
                              ELSE FccResult(self, mobile, "return", chain,
                                             total, common, Ratio(common, total))

\* a direct call of the public method set_neighbors
set_neighbors(self) ==
    /\ runs[self] < MaxRuns
    /\ neighbors' = [neighbors EXCEPT
                        ![self] = SetNeighborsMap(neighbors[self], get_chains(self), uniq_pairs[self])]
    /\ runs' = [runs EXCEPT ![self] = @ + 1]
    /\ result' = [op |-> "set_neighbors", self |-> self, outcome |-> "return"]
    /\ UNCHANGED <<child_list, child_dict, uniq_pairs, neighbors_id>>

(* ------------------------ the contact analyses ------------------------- *)

\* residue lists the contact analyses are run on: an interface nothing was
\* added to, and the two-chain interface of chains A and B
ContactMembers == {<<>>, <<A10, A11, B10>>}

\* a raw pair joins residues of two different chains of the interface
CrossPairs(members) ==
    {p \in Range(members) \X Range(members) : p[1].chain # p[2].chain}

\* raw contact lists: deduplicated (no unordered pair twice), either direction
PairLists(members) ==
    {ps \in UNION {[1..n -> CrossPairs(members)] : n \in 0..MaxPairs} :
        \A a, b \in DOMAIN ps : a # b => {ps[a][1], ps[a][2]} # {ps[b][1], ps[b][2]}}

\* Interface.__init__ (lines 28-34) for every instance, then the external
\* construction step: add() per member residue, uniq_pairs assigned
Built(members, pairs) ==
    /\ child_list = [i \in Interfaces |-> AddAll(NewEntity, members[i]).child_list]
    /\ child_dict = [i \in Interfaces |-> AddAll(NewEntity, members[i]).child_dict]
    /\ uniq_pairs = pairs
    /\ neighbors = [i \in Interfaces |-> EmptyDict]
    /\ neighbors_id = [i \in Interfaces |-> EmptyDict]
    /\ runs = [i \in Interfaces |-> 0]
    /\ result = [op |-> "none"]

Init ==
    \E members \in [Interfaces -> ContactMembers] :
        \E pairs \in [Interfaces -> UNION {PairLists(m) : m \in ContactMembers}] :
            /\ \A i \in Interfaces : pairs[i] \in PairLists(members[i])
            /\ Built(members, pairs)

Next ==
    \/ \E self \in Interfaces : set_neighbors(self)
    \/ \E self \in Interfaces, mobile \in Interfaces : fcc(self, mobile)

Spec == Init /\ [][Next]_vars

(* ------------------------ claims: the contact map ---------------------- *)

\* b is in the partner list of a, under a's chain, in the map of instance i
Partner(i, a, b) ==
    /\ a.chain \in DOMAIN neighbors[i]
    /\ a \in DOMAIN neighbors[i][a.chain]
    /\ InSeq(b, neighbors[i][a.chain][a])

PartnerSet(i, a) ==
    IF a.chain \in DOMAIN neighbors[i] /\ a \in DOMAIN neighbors[i][a.chain]
    THEN Range(neighbors[i][a.chain][a])
    ELSE {}

Unordered(ps) == {{ps[n][1], ps[n][2]} : n \in DOMAIN ps}

\* C1: once set_neighbors has run on an instance, its contact map is
\* symmetric: b is a partner of a iff a is a partner of b.
C1_MapSymmetric ==
    \A i \in Interfaces :
        runs[i] >= 1 =>
            \A a, b \in Residues : Partner(i, a, b) <=> Partner(i, b, a)

\* C2: fcc(I, I) on an interface with at least one contact returns 1.0.
C2_SelfFccIsOne ==
    (/\ result.op = "fcc"
     /\ result.self = result.mobile
     /\ uniq_pairs[result.self] # <<>>)
    => (result.outcome = "return" /\ result.value[1] = result.value[2])

\* C3: the value fcc returns is the exact ratio common/total.
C3_ExactRatio ==
    (result.op = "fcc" /\ result.outcome = "return")
    => result.value[1] * result.total = result.common * result.value[2]

\* C4: two interfaces over the same chains whose raw lists share no residue
\* pair, the reference having a contact: fcc returns 0.0 on either chain.
C4_DisjointFccIsZero ==
    (/\ result.op = "fcc"
     /\ get_chains(result.self) = get_chains(result.mobile)
     /\ uniq_pairs[result.self] # <<>>
     /\ Unordered(uniq_pairs[result.self]) \cap Unordered(uniq_pairs[result.mobile]) = {})
    => (result.outcome = "return" /\ result.value[1] = 0)

\* C5: fcc on a reference with no contact on the selected chain (total = 0)
\* ends in the empty-contact-set failure, not in a division by zero.
C5_EmptyContactSetFailure ==
    (/\ result.op = "fcc"
     /\ result.outcome \notin {"UnboundLocalError", "KeyError"}
     /\ result.total = 0)
    => result.outcome = "EmptyContactSet"

\* C6: two raw lists that are permutations of each other give every residue
\* the same set of partners.
C6_OrderIndependent ==
    (/\ \A i \in Interfaces : runs[i] >= 1
     /\ child_list["I1"] = child_list["I2"]
     /\ Len(uniq_pairs["I1"]) = Len(uniq_pairs["I2"])
     /\ Range(uniq_pairs["I1"]) = Range(uniq_pairs["I2"]))
    => \A r \in Residues : PartnerSet("I1", r) = PartnerSet("I2", r)

\* C9: over a sequence of fcc calls, a call never runs set_neighbors on, nor
\* changes the map of, an instance whose contact map was computed before.
C9_ComputedOnce ==
    [][\A i \in Interfaces :
          (result.op = "fcc" /\ result'.op = "fcc" /\ runs[i] >= 1)
          => (runs'[i] = runs[i] /\ neighbors'[i] = neighbors[i])]_vars

(* ------------------------ amino-acid property tables ------------------- *)

\* Bio.SCOP.Raf.to_one_letter_code: three-letter name -> one-letter code;
\* a name outside the table raises KeyError
to_one_letter_code == [n \in {"ALA", "LYS", "SER"} |->
                         CASE n = "ALA" -> "A" [] n = "LYS" -> "K" [] n = "SER" -> "S"]

\* IUPACData.protein_polarity['polar']
polar_list == {"K", "S"}

\* IUPACData.protein_pka_side_chain: truthy for a charge-bearing side chain
charged_list == [c \in {"A", "K", "S"} |-> c = "K"]

\* code points, the order list.sort() puts one-letter codes in
Ord == [c \in {"A", "K", "S"} |-> CASE c = "A" -> 65 [] c = "K" -> 75 [] c = "S" -> 83]

Known(rs) == \A n \in DOMAIN rs : rs[n].resname \in DOMAIN to_one_letter_code

\* [to_one_letter_code[r.resname] for r in child_list]
Codes(rs) == [n \in DOMAIN rs |-> to_one_letter_code[rs[n].resname]]

(* --------------------------- calculate_percentage ---------------------- *)

\* the class lines 92-99 count a residue in
Class(r) ==
    LET res == to_one_letter_code[r.resname]
    IN  IF res \in polar_list
        THEN IF charged_list[res] THEN "charged" ELSE "polar"
        ELSE "apolar"

Count(rs, class) == Cardinality({n \in DOMAIN rs : Class(rs[n]) = class})

PctResult(self, outcome, value) ==
    [op |-> "calculate_percentage", self |-> self, outcome |-> outcome, value |-> value]

calculate_percentage(self) ==
    LET rs == child_list[self]
        n  == Len(rs)
    IN  /\ result' =
             IF ~Known(rs)
             THEN PctResult(self, "KeyError", <<>>)            \* line 92
             ELSE IF n = 0
             THEN PctResult(self, "ZeroDivisionError", <<>>)   \* line 101
             ELSE PctResult(self, "return",
                            << <<Count(rs, "polar"), n>>,
                               <<Count(rs, "apolar"), n>>,
                               <<Count(rs, "charged"), n>> >>)
        /\ UNCHANGED <<child_list, child_dict, uniq_pairs, neighbors, neighbors_id, runs>>

(* ------------------------------ calculate_BSA -------------------------- *)

BsaResult(self, outcome, used, naccess) ==
    [op |-> "calculate_BSA", self |-> self, outcome |-> outcome,
     used |-> used, naccess |-> naccess]

\* has_model: whether the caller has set the attribute "model" (__init__ does
\* not); chains: list(self.get_chains()), the keys in the dict's own order;
\* naccess_ok: whether the external NACCESS runs succeed
calculate_BSA(self, has_model, chains, naccess_ok) ==
    /\ Range(chains) = get_chains(self)
    /\ Len(chains) = Cardinality(get_chains(self))
    /\ result' =
         IF ~has_model
         THEN BsaResult(self, "AttributeError", <<>>, 0)                 \* line 132
         ELSE IF Len(chains) = 0
         THEN BsaResult(self, "IndexError", <<>>, 0)                     \* line 132
         ELSE IF Len(chains) = 1
         THEN BsaResult(self, "IndexError", <<chains[1]>>, 0)            \* line 133
         ELSE IF ~naccess_ok
         THEN BsaResult(self, "ExternalServiceFailure", <<chains[1], chains[2]>>, 0)
         \* line 142: the name _get_atomic_SASA is not a global of the module
         ELSE BsaResult(self, "NameError", <<chains[1], chains[2]>>, 3)
    /\ UNCHANGED <<child_list, child_dict, uniq_pairs, neighbors, neighbors_id, runs>>

(* ----------------------------------- rmsd ------------------------------ *)

\* list.sort() on one-letter codes
sort_codes(cs) == SortSeq(cs, LAMBDA a, b : Ord[a] < Ord[b])

\* the comparison of line 176 without the two sorts before it
SeqMismatchUnsorted(ref_seq, alt_seq) == ref_seq # alt_seq

\* "ref_seq != alt_seq" after both were sorted, lines 172-176
SeqMismatch(ref_seq, alt_seq) == sort_codes(ref_seq) # sort_codes(alt_seq)

\* zip(self.child_list, interface.child_list), line 160
Zip(a, b) == [n \in 1..(IF Len(a) < Len(b) THEN Len(a) ELSE Len(b)) |-> <<a[n], b[n]>>]

RmsdResult(self, mobile, mob_ref, outcome, atoms, n_atoms, superposed) ==
    [op |-> "rmsd", self |-> self, mobile |-> mobile, mob_ref |-> mob_ref,
     outcome |-> outcome, atoms |-> atoms, n_atoms |-> n_atoms, superposed |-> superposed]

\* the rest of rmsd once the sequence check is passed or skipped, lines 181-189
Superpose(self, mobile, mob_ref, super_ok) ==
    LET zs == Zip(child_list[self], child_list[mobile])
    IN  IF \E n \in DOMAIN zs : ~zs[n][1].ca \/ ~zs[n][2].ca
        THEN RmsdResult(self, mobile, mob_ref, "KeyError", TRUE, 0, FALSE)   \* lines 161-162
        ELSE IF ~super_ok
        THEN RmsdResult(self, mobile, mob_ref, "ExternalServiceFailure", TRUE, Len(zs), TRUE)
        ELSE RmsdResult(self, mobile, mob_ref, "return", TRUE, Len(zs), TRUE)

\* super_ok: whether the external Superimposer accepts the two atom lists
rmsd(self, mobile, mob_ref, super_ok) ==
    /\ result' =
         IF ~mob_ref
         THEN IF ~Known(child_list[self]) \/ ~Known(child_list[mobile])
              THEN RmsdResult(self, mobile, mob_ref, "KeyError", FALSE, 0, FALSE) \* lines 170-171
              ELSE IF SeqMismatch(Codes(child_list[self]), Codes(child_list[mobile]))
              THEN RmsdResult(self, mobile, mob_ref, "ValueError", FALSE, 0, FALSE)
              ELSE Superpose(self, mobile, mob_ref, super_ok)
         ELSE Superpose(self, mobile, mob_ref, super_ok)
    /\ UNCHANGED <<child_list, child_dict, uniq_pairs, neighbors, neighbors_id, runs>>

(* ------------------------- the residue analyses ------------------------ *)

\* residue lists of an interface: no residue twice, any order
ResidueLists ==
    {rs \in UNION {[1..n -> Residues] : n \in 0..MaxRes} :
        \A a, b \in DOMAIN rs : a # b => rs[a] # rs[b]}

\* the orders a dict may list the chain keys in
ChainOrders(keys) ==
    {cs \in [1..Cardinality(keys) -> keys] : \A a, b \in DOMAIN cs : a # b => cs[a] # cs[b]}

InitResidues ==
    \E members \in [Interfaces -> ResidueLists] :
        Built(members, [i \in Interfaces |-> <<>>])

NextResidues ==
    \/ \E self \in Interfaces : calculate_percentage(self)
    \/ \E self \in Interfaces, has_model \in BOOLEAN, naccess_ok \in BOOLEAN :
          \E chains \in ChainOrders(get_chains(self)) :
            calculate_BSA(self, has_model, chains, naccess_ok)

SpecResidues == InitResidues /\ [][NextResidues]_vars

(* ------------------------- the geometric analysis ---------------------- *)

NextRmsd ==
    \E self \in Interfaces, mobile \in Interfaces, mob_ref \in BOOLEAN,
       super_ok \in BOOLEAN :
         rmsd(self, mobile, mob_ref, super_ok)

SpecRmsd == InitResidues /\ [][NextRmsd]_vars

(* ----------------------- claims: the residue analyses ------------------ *)

\* C7: calculate_BSA on an interface that has not exactly two chains ends in
\* the unsupported-chain-count failure, having submitted no chain to NACCESS.
C7_UnsupportedChainCount ==
    (result.op = "calculate_BSA" /\ Cardinality(get_chains(result.self)) # 2)
    => (/\ result.outcome = "UnsupportedChainCount"
        /\ result.used = <<>>
        /\ result.naccess = 0)

\* C10: calculate_percentage on an empty residue list ends in the
\* no-residues failure, not in a division by zero.
C10_NoResiduesFailure ==
    (result.op = "calculate_percentage" /\ child_list[result.self] = <<>>)
    => result.outcome = "NoResidues"

\* the multiset of one-letter codes of a residue list: code -> occurrences
CodeBag(rs) ==
    [c \in {"A", "K", "S"} |->
        Cardinality({n \in DOMAIN rs : to_one_letter_code[rs[n].resname] = c})]

\* C8: rmsd without the override, on residues whose names have one-letter
\* codes: if the two multisets of codes differ it raises the sequence-mismatch
\* ValueError with no atom list built and nothing superposed; if they are
\* equal it goes on to build the atom lists, the residue lists being equally
\* long.
C8_SequenceCheck ==
    (/\ result.op = "rmsd"
     /\ ~result.mob_ref
     /\ Known(child_list[result.self])
     /\ Known(child_list[result.mobile]))
    => IF CodeBag(child_list[result.self]) # CodeBag(child_list[result.mobile])
       THEN /\ result.outcome = "ValueError"
            /\ ~result.atoms
            /\ ~result.superposed
       ELSE /\ result.outcome # "ValueError"
            /\ result.atoms
            /\ Len(child_list[result.self]) = Len(child_list[result.mobile])

\* rmsd has refused two equally long residue lists whose codes differ
C8_Witness ==
    /\ result.op = "rmsd"
    /\ ~result.mob_ref
    /\ result.outcome = "ValueError"
    /\ Len(child_list[result.self]) = Len(child_list[result.mobile])
    /\ Len(child_list[result.self]) >= 2

====
